---------------------------- MODULE Spec2Model ----------------------------
(***************************************************************************)
(* Model of the Recording cog of src/steve/cogs/recording.py: the per-guild *)
(* recording session lifecycle (join, stop, timeout task, finish callback,  *)
(* cleanup, voice-state listener).                                          *)
(*                                                                          *)
(* The cog runs on one asyncio event loop, so the code between two awaits   *)
(* is atomic: every action below is one such segment of one handler.  A     *)
(* handler's position (the await it is suspended at) is its pc.             *)
(*                                                                          *)
(* The entry that join number j stores in `connections` holds voice client  *)
(* j, meeting j and status message j, so an entry is identified by j, and   *)
(* 0 stands for "no entry" / None.                                          *)
(***************************************************************************)
EXTENDS Integers, Sequences, FiniteSets, TLC

\* ------------------------------------------------------------------ bounds
MaxJoins == 2        \* number of /join invocations in a run
MaxStops == 2        \* number of manual stop requests (/stop or button)
MaxSpeakers == 2     \* speakers that may appear in sink.audio_data
MaxTicks == 2        \* iterations of the status_update_task loop

Joins == 1..MaxJoins
Stops == 1..MaxStops
Speakers == 1..MaxSpeakers
Guilds == {"G1", "G2"}

VARIABLES
  tenants,          \* guilds the commands of this run are issued in
  connections,      \* self.connections: guild -> entry (0 = absent)
  recording_tasks,  \* self.recording_tasks: guild -> timeout task (0 = absent)
  selfVc,           \* self.vc
  voiceClients,     \* the library's guild.voice_client slot: guild -> vc
  vcConn,           \* vc -> "none" | "connecting" | "connected" | "closing" | "failing" | "closed"
  vcRec,            \* vc -> "idle" | "recording" | "stopped"
  timer,            \* timeout task j -> "none" | "sleeping" | "sending" | "done" | "failed" | "cancelled";
                    \* failed: its vc.stop_recording() raised (recording.py:374-375)
  listener,         \* voice-state event of vc j: [pc, wait], pc "none" | "pending" | "disconnecting" | "done"
  jn,               \* /join invocation j: [pc, out, err, g, wait]
  st,               \* stop request k: [pc, out, g, kind, vc, late, wait]; late: it found the recorder already stopped
  cb,               \* finish callback of vc j: [pc, conn, audio, files, users, wait, raised, log];
                    \* log: the collaborator calls it made, in order
  meeting,          \* meeting record j: [state, upd, del, recs, parts]
  discCalls,        \* history: vc -> number of vc.disconnect() calls made by the cog
  deregs,           \* history: entry -> number of `del self.connections[...]` that removed it
  cancels,          \* history: timeout task -> number of task.cancel() calls made on it
  hist,             \* history: entry -> [fin: runs of the finish callback on it, by: who stopped its recorder]
  alt,              \* the RecordingAlternative cog (cogs/recording_alternative.py): its
                    \* connections, recording_tasks, and per guild the voice client,
                    \* recorder, timeout task and handlers
  status_update_task, \* its @tasks.loop: [pc, snap, todo, tried, errors, n, running, edit]
  keepalive,        \* the send_packet @tasks.loop of the Recording cog: [running, n, sent];
                    \* sent: the voice clients its last iteration sent the packet on
  unload            \* cog_unload of the Recording cog: [called, raised, scheduled];
                    \* scheduled: guilds it created a cleanup task for

\* the state of the RecordingAlternative cog
altVars == <<alt, status_update_task>>

\* the background loop and the unloading of the Recording cog
bgVars == <<keepalive, unload>>

\* the sessions of the Recording cog
sessVars == <<tenants, connections, recording_tasks, selfVc, voiceClients, vcConn,
              vcRec, timer, listener, jn, st, cb, meeting, discCalls, deregs, cancels, hist>>

\* the state of the Recording cog
recVars == <<bgVars, sessVars>>

vars == <<recVars, altVars>>

\* voice clients, timeout tasks, callbacks and listener events are numbered
\* by the /join invocation that created them
None == 0

\* asyncio.Task.cancel(): a task that is suspended gets CancelledError at its
\* await (recording.py:372); a finished task is left alone
task_cancel(s) == IF s \in {"sleeping", "sending"} THEN "cancelled" ELSE s

\* the state _cleanup_recording reads and writes, as one record
Reg == [conn |-> connections, tasks |-> recording_tasks, timer |-> timer,
        vcConn |-> vcConn, slot |-> voiceClients, disc |-> discCalls,
        dereg |-> deregs, canc |-> cancels, ev |-> listener]

SetReg(r) ==
  /\ connections' = r.conn
  /\ recording_tasks' = r.tasks
  /\ timer' = r.timer
  /\ vcConn' = r.vcConn
  /\ voiceClients' = r.slot
  /\ discCalls' = r.disc
  /\ deregs' = r.dereg
  /\ cancels' = r.canc
  /\ listener' = r.ev

\* `if guild_id in self.recording_tasks: task.cancel(); del ...`
\* (recording.py:155-157 and 381-383)
cancel_timeout_task(r, g) ==
  IF r.tasks[g] # None
  THEN [r EXCEPT !.timer[r.tasks[g]] = task_cancel(@), !.tasks[g] = None,
                 !.canc[r.tasks[g]] = @ + 1]
  ELSE r

\* how a vc.disconnect() of the voice library ends: it returns; it raises
\* after the gateway was told to leave the channel; or it raises before that
DisconnectFates == {"ok", "raise_late", "raise_early"}

\* vc.disconnect() up to its first await: the client stops being connected
\* at once; unless the call fails early, the gateway is told to leave the
\* channel, which comes back as a voice-state event of the bot
vc_disconnect_begin(r, v, fate) ==
  [r EXCEPT !.vcConn[v] = IF fate = "ok" THEN "closing" ELSE "failing",
            !.ev[v].pc = IF fate = "raise_early" THEN @ ELSE "pending",
            !.disc[v] = @ + 1]

\* ... and its `finally`: the client is dropped from the guild's slot
vc_disconnect_end(r, g, v) ==
  [r EXCEPT !.vcConn[v] = "closed",
            !.slot[g] = IF @ = v THEN None ELSE @]

\* `del self.connections[guild_id]`; a missing key raises KeyError, which is
\* caught and logged by _cleanup_recording (recording.py:396)
del_connection(r, g) ==
  IF r.conn[g] # None
  THEN [r EXCEPT !.conn[g] = None, !.dereg[r.conn[g]] = @ + 1]
  ELSE r

\* _cleanup_recording up to `await vc.disconnect()`.  wait is the voice
\* client whose disconnect the caller is suspended on (None: it returned).
cleanup_recording(r, g, fate) ==
  LET r1 == cancel_timeout_task(r, g)
      c == r1.conn[g]
  IN IF c = None THEN [reg |-> r1, wait |-> None]
     ELSE IF r1.vcConn[c] = "connected"
          THEN [reg |-> vc_disconnect_begin(r1, c, fate), wait |-> c]
          ELSE [reg |-> del_connection(r1, g), wait |-> None]

\* _cleanup_recording after `await vc.disconnect()`: when the disconnect
\* raised, the `del` is skipped (the except only logs)
cleanup_resume(r, g, v) ==
  LET r1 == vc_disconnect_end(r, g, v)
  IN IF r.vcConn[v] = "failing" THEN r1 ELSE del_connection(r1, g)

\* ------------------------------------------------------------------- Init
\* no edit of a status message was issued by the status tick yet
NoEdit == [g |-> "none", registered |-> FALSE, rec |-> "idle"]

NoJoin == [pc |-> "idle", out |-> "none", err |-> "none", g |-> "G1", wait |-> None]
NoStop == [pc |-> "idle", out |-> "none", g |-> "G1", kind |-> "command",
           vc |-> None, late |-> FALSE, wait |-> None]
NoCallback == [pc |-> "none", conn |-> None, audio |-> <<>>, files |-> <<>>,
               users |-> <<>>, wait |-> None, raised |-> FALSE, log |-> <<>>]
NoMeeting == [state |-> "none", upd |-> 0, del |-> 0, recs |-> <<>>, parts |-> <<>>]
NoHist == [fin |-> 0, by |-> "none"]

\* RecordingAlternative.__init__ (recording_alternative.py:19-24): empty
\* dicts, and status_update_task.start()
NoAltSession == [vc |-> "none", rec |-> "idle", task |-> "none", start |-> "idle",
                 out |-> "none", stop |-> "idle", sout |-> "none", cb |-> "none",
                 raised |-> FALSE, ev |-> "none"]
NoAlt == [connections |-> <<>>, recording_tasks |-> {},
          s |-> [g \in Guilds |-> NoAltSession]]
NoTick == [pc |-> "sleeping", snap |-> <<>>, todo |-> <<>>, tried |-> <<>>,
           errors |-> 0, n |-> 0, running |-> TRUE, edit |-> NoEdit]

\* Recording.__init__ (recording.py:39-41): self.vc = None and
\* send_packet.start(); the cog is loaded
NoPackets == [running |-> TRUE, n |-> 0, sent |-> {}]
NoUnload == [called |-> FALSE, raised |-> FALSE, scheduled |-> {}]

InitCommon ==
  /\ connections = [g \in Guilds |-> None]
  /\ recording_tasks = [g \in Guilds |-> None]
  /\ selfVc = None
  /\ voiceClients = [g \in Guilds |-> None]
  /\ vcConn = [j \in Joins |-> "none"]
  /\ vcRec = [j \in Joins |-> "idle"]
  /\ timer = [j \in Joins |-> "none"]
  /\ listener = [j \in Joins |-> [pc |-> "none", wait |-> None]]
  /\ jn = [j \in Joins |-> NoJoin]
  /\ st = [k \in Stops |-> NoStop]
  /\ cb = [j \in Joins |-> NoCallback]
  /\ meeting = [j \in Joins |-> NoMeeting]
  /\ discCalls = [j \in Joins |-> 0]
  /\ deregs = [j \in Joins |-> 0]
  /\ cancels = [j \in Joins |-> 0]
  /\ hist = [j \in Joins |-> NoHist]
  /\ alt = NoAlt
  /\ status_update_task = NoTick
  /\ keepalive = NoPackets
  /\ unload = NoUnload

\* Recording.__init__ (recording.py:34-41); every command is issued in G1
Init == tenants = {"G1"} /\ InitCommon

GuildOf(j) == jn[j].g

\* ------------------------------------------------------------------ /join
\* the generic `except Exception` handler of join up to its first await,
\* the send of the "Recording Failed" embed (recording.py:137-145)
join_fail(j, e) == jn' = [jn EXCEPT ![j].pc = "error_send", ![j].err = e]

\* join with a rejection that is not free of effects: a /join that finds the
\* guild registered drops the guild's entry before it answers
join_rejecting_drops_entry(j) ==
  /\ jn[j].pc = "idle"
  /\ IF j = 1 THEN TRUE ELSE jn[j - 1].pc # "idle"
  /\ \E g \in tenants, voice \in BOOLEAN :
       /\ jn' = [jn EXCEPT ![j] =
                   IF ~voice
                   THEN [@ EXCEPT !.pc = "done", !.out = "NotInVoiceChannel", !.g = g]
                   ELSE IF connections[g] # None
                   THEN [@ EXCEPT !.pc = "done", !.out = "AlreadyRecording", !.g = g]
                   ELSE [@ EXCEPT !.pc = "defer", !.g = g]]
       /\ connections' = IF voice /\ connections[g] # None
                         THEN [connections EXCEPT ![g] = None]
                         ELSE connections
  /\ UNCHANGED <<bgVars, altVars, tenants, recording_tasks, selfVc, voiceClients, vcConn,
                 vcRec, timer, listener, st, cb, meeting, discCalls, deregs, cancels, hist>>

\* recording.py:49-71: the two precondition checks, then `await ctx.defer()`
join(j) ==
  /\ jn[j].pc = "idle"
  /\ IF j = 1 THEN TRUE ELSE jn[j - 1].pc # "idle"
  /\ \E g \in tenants, voice \in BOOLEAN :
       jn' = [jn EXCEPT ![j] =
                IF ~voice
                THEN [@ EXCEPT !.pc = "done", !.out = "NotInVoiceChannel", !.g = g]
                ELSE IF connections[g] # None
                THEN [@ EXCEPT !.pc = "done", !.out = "AlreadyRecording", !.g = g]
                ELSE [@ EXCEPT !.pc = "defer", !.g = g]]
  /\ UNCHANGED <<bgVars, altVars, tenants, connections, recording_tasks, selfVc, voiceClients, vcConn,
                 vcRec, timer, listener, st, cb, meeting, discCalls, deregs, cancels, hist>>

\* recording.py:71-76: ctx.defer() returned or raised; voice.channel.connect()
\* is called.  The library refuses a second voice client for a guild
\* ("Already connected to a voice channel") and otherwise occupies the
\* guild's slot before it suspends.
join_deferred(j) ==
  /\ jn[j].pc = "defer"
  /\ \E ok \in BOOLEAN :
       IF ok /\ voiceClients[GuildOf(j)] = None
       THEN /\ voiceClients' = [voiceClients EXCEPT ![GuildOf(j)] = j]
            /\ vcConn' = [vcConn EXCEPT ![j] = "connecting"]
            /\ jn' = [jn EXCEPT ![j].pc = "connect"]
       ELSE /\ join_fail(j, IF ok THEN "already_connected" ELSE "defer")
            /\ UNCHANGED <<voiceClients, vcConn>>
  /\ UNCHANGED <<bgVars, altVars, tenants, connections, recording_tasks, selfVc,
                 vcRec, timer, listener, st, cb, meeting, discCalls, deregs, cancels, hist>>

\* recording.py:74-84: connect() returned the voice client, timed out or
\* raised; on success the status message send is issued
join_connected(j) ==
  /\ jn[j].pc = "connect"
  /\ \E res \in {"ok", "timeout", "error"} :
       IF res = "ok"
       THEN /\ vcConn' = [vcConn EXCEPT ![j] = "connected"]
            /\ jn' = [jn EXCEPT ![j].pc = "status_send"]
            /\ UNCHANGED voiceClients
       ELSE /\ vcConn' = [vcConn EXCEPT ![j] = "closed"]
            /\ voiceClients' = [voiceClients EXCEPT ![GuildOf(j)] = None]
            /\ IF res = "timeout"
               THEN jn' = [jn EXCEPT ![j].pc = "timeout_send"]
               ELSE join_fail(j, "connect")
  /\ UNCHANGED <<bgVars, altVars, tenants, connections, recording_tasks, selfVc,
                 vcRec, timer, listener, st, cb, meeting, discCalls, deregs, cancels, hist>>

\* recording.py:82-92: the status message was sent (or the send raised, an
\* aiohttp timeout being an asyncio.TimeoutError); create_meeting is issued
join_status_sent(j) ==
  /\ jn[j].pc = "status_send"
  /\ \E res \in {"ok", "timeout", "error"} :
       CASE res = "ok" -> jn' = [jn EXCEPT ![j].pc = "create_meeting"]
         [] res = "timeout" -> jn' = [jn EXCEPT ![j].pc = "timeout_send"]
         [] OTHER -> join_fail(j, "status_send")
  /\ UNCHANGED <<bgVars, altVars, tenants, connections, recording_tasks, selfVc, voiceClients, vcConn,
                 vcRec, timer, listener, st, cb, meeting, discCalls, deregs, cancels, hist>>

\* recording.py:86-108: create_meeting returned a Meeting or None
\* (db/meetings.py:19-45); the entry is stored, self.vc set, and the start
\* sound is played (an await loop, errors swallowed)
join_meeting_created(j) ==
  /\ jn[j].pc = "create_meeting"
  /\ \E ok \in BOOLEAN :
       meeting' = [meeting EXCEPT ![j].state = IF ok THEN "created" ELSE "none"]
  /\ connections' = [connections EXCEPT ![GuildOf(j)] = j]
  /\ selfVc' = j
  /\ jn' = [jn EXCEPT ![j].pc = "play_sound"]
  /\ UNCHANGED <<bgVars, altVars, tenants, recording_tasks, voiceClients, vcConn,
                 vcRec, timer, listener, st, cb, discCalls, deregs, cancels, hist>>

\* recording.py:110-127: vc.start_recording (the library raises when the
\* client is not connected or already recording), then the timeout task
join_sound_played(j) ==
  /\ jn[j].pc = "play_sound"
  /\ IF vcConn[j] = "connected" /\ vcRec[j] = "idle"
     THEN /\ vcRec' = [vcRec EXCEPT ![j] = "recording"]
          /\ timer' = [timer EXCEPT ![j] = "sleeping"]
          /\ recording_tasks' = [recording_tasks EXCEPT ![GuildOf(j)] = j]
          /\ jn' = [jn EXCEPT ![j].pc = "done", ![j].out = "Started"]
     ELSE /\ join_fail(j, "start_recording")
          /\ UNCHANGED <<vcRec, timer, recording_tasks>>
  /\ UNCHANGED <<bgVars, altVars, tenants, connections, selfVc, voiceClients, vcConn,
                 listener, st, cb, meeting, discCalls, deregs, cancels, hist>>

\* recording.py:129-136: the "Connection Timeout" embed was sent (or the
\* send raised); the handler ends without any cleanup
join_timeout_sent(j) ==
  /\ jn[j].pc = "timeout_send"
  /\ jn' = [jn EXCEPT ![j].pc = "done", ![j].out = "ConnectionTimeout"]
  /\ UNCHANGED <<bgVars, altVars, tenants, connections, recording_tasks, selfVc, voiceClients, vcConn,
                 vcRec, timer, listener, st, cb, meeting, discCalls, deregs, cancels, hist>>

\* recording.py:145-147: the "Recording Failed" embed was sent and
\* _cleanup_recording runs; when the send raises, the exception leaves the
\* handler and the cleanup is not reached
join_error_sent(j) ==
  /\ jn[j].pc = "error_send"
  /\ \E ok \in BOOLEAN :
       IF ok
       THEN \E fate \in DisconnectFates :
              LET c == cleanup_recording(Reg, GuildOf(j), fate)
              IN /\ SetReg(c.reg)
                 /\ jn' = [jn EXCEPT ![j] =
                      IF c.wait # None
                      THEN [@ EXCEPT !.pc = "disconnecting", !.wait = c.wait]
                      ELSE [@ EXCEPT !.pc = "done", !.out = "RecordingFailed"]]
       ELSE /\ jn' = [jn EXCEPT ![j].pc = "done", ![j].out = "Crashed"]
            /\ UNCHANGED <<connections, recording_tasks, timer, vcConn,
                           voiceClients, discCalls, deregs, cancels, listener>>
  /\ UNCHANGED <<bgVars, altVars, tenants, selfVc, vcRec, st, cb, meeting, hist>>

\* recording.py:391-394 on behalf of join: vc.disconnect() returned or raised
join_cleaned(j) ==
  /\ jn[j].pc = "disconnecting"
  /\ SetReg(cleanup_resume(Reg, GuildOf(j), jn[j].wait))
  /\ jn' = [jn EXCEPT ![j].pc = "done", ![j].out = "RecordingFailed", ![j].wait = None]
  /\ UNCHANGED <<bgVars, altVars, tenants, selfVc, vcRec, st, cb, meeting, hist>>

JoinStep(j) ==
  \/ join(j) \/ join_deferred(j) \/ join_connected(j) \/ join_status_sent(j)
  \/ join_meeting_created(j) \/ join_sound_played(j) \/ join_timeout_sent(j)
  \/ join_error_sent(j) \/ join_cleaned(j)

\* ------------------------------------------------- voice library, recorder
\* vc.stop_recording(): raises RecordingException unless the client is
\* recording; otherwise the receive thread leaves its loop and schedules the
\* finish callback that start_recording was given (once per start_recording)
can_stop_recording(v) == vcRec[v] = "recording"

stop_recording(v, by) ==
  /\ vcRec' = [vcRec EXCEPT ![v] = "stopped"]
  /\ cb' = [cb EXCEPT ![v].pc = "pending"]
  /\ hist' = [hist EXCEPT ![v].by = by]

\* ---------------------------------------------------- /stop and the button
\* the status message of join j, which carries the Stop Recording button,
\* was sent (recording.py:81-84); the view has no timeout, and only a manual
\* stop disables the button
status_message_sent(j) ==
  \/ jn[j].pc \in {"create_meeting", "play_sound"}
  \/ jn[j].out = "Started"
  \/ jn[j].err = "start_recording"

\* recording.py:291-302 (/stop) and 26-28 (Stop Recording button)
stop(k) ==
  /\ st[k].pc = "idle"
  /\ IF k = 1 THEN TRUE ELSE st[k - 1].pc # "idle"
  /\ \E g \in tenants, kind \in {"command", "button"} :
     /\ kind = "button" => \E j \in Joins : status_message_sent(j) /\ jn[j].g = g
     /\ st' = [st EXCEPT ![k] =
                IF kind = "button"
                THEN [@ EXCEPT !.pc = "button_defer", !.g = g, !.kind = kind]
                ELSE IF connections[g] = None
                THEN [@ EXCEPT !.pc = "done", !.out = "NotRecording", !.g = g, !.kind = kind]
                ELSE [@ EXCEPT !.pc = "status_edit", !.g = g, !.kind = kind,
                               !.vc = connections[g]]]
  /\ UNCHANGED <<bgVars, altVars, tenants, connections, recording_tasks, selfVc, voiceClients, vcConn,
                 vcRec, timer, listener, jn, cb, meeting, discCalls, deregs, cancels, hist>>

\* recording.py:27-28, 316-320: the button's defer returned; _stop_recording
\* reads self.connections[guild_id] (KeyError when absent, not caught)
stop_button_deferred(k) ==
  /\ st[k].pc = "button_defer"
  /\ st' = [st EXCEPT ![k] =
              IF connections[st[k].g] = None
              THEN [@ EXCEPT !.pc = "done", !.out = "Crashed"]
              ELSE [@ EXCEPT !.pc = "status_edit", !.vc = connections[st[k].g]]]
  /\ UNCHANGED <<bgVars, altVars, tenants, connections, recording_tasks, selfVc, voiceClients, vcConn,
                 vcRec, timer, listener, jn, cb, meeting, discCalls, deregs, cancels, hist>>

\* recording.py:320-322, 303, 29-30, 304-311: _update_status_to_ended
\* returned (it swallows its errors); vc.stop_recording() on the client read
\* before the await
stop_recording_called(k) ==
  /\ st[k].pc = "status_edit"
  /\ IF can_stop_recording(st[k].vc)
     THEN /\ stop_recording(st[k].vc, "manual")
          /\ st' = [st EXCEPT ![k].pc =
                      IF st[k].kind = "command" THEN "ctx_delete" ELSE "button_edit"]
     ELSE /\ st' = [st EXCEPT ![k] =
                      IF st[k].kind = "command"
                      THEN [@ EXCEPT !.pc = "error_respond",
                                     !.late = vcRec[st[k].vc] = "stopped"]
                      ELSE [@ EXCEPT !.pc = "done", !.out = "Crashed",
                                     !.late = vcRec[st[k].vc] = "stopped"]]
          /\ UNCHANGED <<vcRec, cb, hist>>
  /\ UNCHANGED <<bgVars, altVars, tenants, connections, recording_tasks, selfVc, voiceClients, vcConn,
                 timer, listener, jn, meeting, discCalls, deregs, cancels>>

\* recording.py:303-311: ctx.delete() returned or raised
stop_ctx_deleted(k) ==
  /\ st[k].pc = "ctx_delete"
  /\ \E ok \in BOOLEAN :
       st' = [st EXCEPT ![k] =
                IF ok THEN [@ EXCEPT !.pc = "done", !.out = "Stopped"]
                ELSE [@ EXCEPT !.pc = "error_respond"]]
  /\ UNCHANGED <<bgVars, altVars, tenants, connections, recording_tasks, selfVc, voiceClients, vcConn,
                 vcRec, timer, listener, jn, cb, meeting, discCalls, deregs, cancels, hist>>

\* recording.py:29-30: the button view was edited (or the edit raised)
stop_button_edited(k) ==
  /\ st[k].pc = "button_edit"
  /\ st' = [st EXCEPT ![k].pc = "done", ![k].out = "Stopped"]
  /\ UNCHANGED <<bgVars, altVars, tenants, connections, recording_tasks, selfVc, voiceClients, vcConn,
                 vcRec, timer, listener, jn, cb, meeting, discCalls, deregs, cancels, hist>>

\* recording.py:311-313: the "Stop Error" embed was sent and the forced
\* _cleanup_recording runs; when the respond raises, it is not reached
stop_error_responded(k) ==
  /\ st[k].pc = "error_respond"
  /\ \E ok \in BOOLEAN :
       IF ok
       THEN \E fate \in DisconnectFates :
              LET c == cleanup_recording(Reg, st[k].g, fate)
              IN /\ SetReg(c.reg)
                 /\ st' = [st EXCEPT ![k] =
                      IF c.wait # None
                      THEN [@ EXCEPT !.pc = "disconnecting", !.wait = c.wait]
                      ELSE [@ EXCEPT !.pc = "done", !.out = "StopError"]]
       ELSE /\ st' = [st EXCEPT ![k].pc = "done", ![k].out = "Crashed"]
            /\ UNCHANGED <<connections, recording_tasks, timer, vcConn,
                           voiceClients, discCalls, deregs, cancels, listener>>
  /\ UNCHANGED <<bgVars, altVars, tenants, selfVc, vcRec, jn, cb, meeting, hist>>

\* recording.py:391-394 on behalf of /stop
stop_cleaned(k) ==
  /\ st[k].pc = "disconnecting"
  /\ SetReg(cleanup_resume(Reg, st[k].g, st[k].wait))
  /\ st' = [st EXCEPT ![k].pc = "done", ![k].out = "StopError", ![k].wait = None]
  /\ UNCHANGED <<bgVars, altVars, tenants, selfVc, vcRec, jn, cb, meeting, hist>>

StopStep(k) ==
  \/ stop(k) \/ stop_button_deferred(k) \/ stop_recording_called(k)
  \/ stop_ctx_deleted(k) \/ stop_button_edited(k) \/ stop_error_responded(k)
  \/ stop_cleaned(k)

\* ---------------------------------------------------------- timeout task
\* auto_stop_recording with a timeout path of its own: besides stopping the
\* recorder, the task drops the guild's entry itself
auto_stop_recording_deregisters(j) ==
  /\ timer[j] = "sleeping"
  /\ LET c == connections[GuildOf(j)]
     IN IF c # None /\ can_stop_recording(c)
        THEN /\ stop_recording(c, "timeout")
             /\ timer' = [timer EXCEPT ![j] = "sending"]
             /\ connections' = [connections EXCEPT ![GuildOf(j)] = None]
        ELSE /\ timer' = [timer EXCEPT ![j] = IF c # None THEN "failed" ELSE "done"]
             /\ UNCHANGED <<vcRec, cb, hist, connections>>
  /\ UNCHANGED <<bgVars, altVars, tenants, recording_tasks, selfVc, voiceClients, vcConn,
                 listener, jn, st, meeting, discCalls, deregs, cancels>>

\* recording.py:349-366, 374-375: the sleep is over.  The entry that is
\* registered for the guild NOW is stopped; when its client is not recording,
\* vc.stop_recording() raises and the task ends in its `except Exception`.
auto_stop_recording(j) ==
  /\ timer[j] = "sleeping"
  /\ LET c == connections[GuildOf(j)]
     IN IF c # None /\ can_stop_recording(c)
        THEN /\ stop_recording(c, "timeout")
             /\ timer' = [timer EXCEPT ![j] = "sending"]
        ELSE /\ timer' = [timer EXCEPT ![j] = IF c # None THEN "failed" ELSE "done"]
             /\ UNCHANGED <<vcRec, cb, hist>>
  /\ UNCHANGED <<bgVars, altVars, tenants, connections, recording_tasks, selfVc, voiceClients, vcConn,
                 listener, jn, st, meeting, discCalls, deregs, cancels>>

\* recording.py:360-370: the "Recording Timeout" message was sent (or failed)
auto_stop_sent(j) ==
  /\ timer[j] = "sending"
  /\ timer' = [timer EXCEPT ![j] = "done"]
  /\ UNCHANGED <<bgVars, altVars, tenants, connections, recording_tasks, selfVc, voiceClients, vcConn,
                 vcRec, listener, jn, st, cb, meeting, discCalls, deregs, cancels, hist>>

TimerStep(j) == auto_stop_recording(j) \/ auto_stop_sent(j)

\* ------------------------------------------------- voice-state listener
\* on_voice_state_update without the test of the voice channel: the entries
\* of all guilds are dropped when the bot leaves a channel
on_voice_state_update_every_guild(j) ==
  /\ listener[j].pc = "pending"
  /\ \E fate \in DisconnectFates :
     LET c == IF connections[GuildOf(j)] # None
              THEN cleanup_recording(Reg, GuildOf(j), fate)
              ELSE [reg |-> Reg, wait |-> None]
     IN SetReg([c.reg EXCEPT !.ev[j] =
                  IF c.wait # None
                  THEN [pc |-> "disconnecting", wait |-> c.wait]
                  ELSE [pc |-> "done", wait |-> None],
                             !.conn = [g \in Guilds |->
                                         IF g = GuildOf(j) THEN c.reg.conn[g] ELSE None]])
  /\ UNCHANGED <<bgVars, altVars, tenants, selfVc, vcRec, jn, st, cb, meeting, hist>>

\* recording.py:399-409: the bot left a voice channel.  Every registered
\* entry whose voice client is in that channel is cleaned up (a guild has one
\* voice channel here, so the entry of the event's guild matches).
on_voice_state_update(j) ==
  /\ listener[j].pc = "pending"
  /\ \E fate \in DisconnectFates :
     LET c == IF connections[GuildOf(j)] # None
              THEN cleanup_recording(Reg, GuildOf(j), fate)
              ELSE [reg |-> Reg, wait |-> None]
     IN SetReg([c.reg EXCEPT !.ev[j] =
                  IF c.wait # None
                  THEN [pc |-> "disconnecting", wait |-> c.wait]
                  ELSE [pc |-> "done", wait |-> None]])
  /\ UNCHANGED <<bgVars, altVars, tenants, selfVc, vcRec, jn, st, cb, meeting, hist>>

\* recording.py:391-394 on behalf of the listener
listener_cleaned(j) ==
  /\ listener[j].pc = "disconnecting"
  /\ SetReg([cleanup_resume(Reg, GuildOf(j), listener[j].wait)
               EXCEPT !.ev[j] = [pc |-> "done", wait |-> None]])
  /\ UNCHANGED <<bgVars, altVars, tenants, selfVc, vcRec, jn, st, cb, meeting, hist>>

ListenerStep(j) == on_voice_state_update(j) \/ listener_cleaned(j)

\* ----------------------------------------------------------- environment
\* the platform drops the bot's voice connection: the library disconnects
\* the client itself and the bot's voice-state event is dispatched
external_disconnect(j) ==
  /\ vcConn[j] = "connected"
  /\ vcConn' = [vcConn EXCEPT ![j] = "closed"]
  /\ voiceClients' = [voiceClients EXCEPT ![GuildOf(j)] = IF @ = j THEN None ELSE @]
  /\ listener' = [listener EXCEPT ![j].pc = "pending"]
  /\ UNCHANGED <<bgVars, altVars, tenants, connections, recording_tasks, selfVc,
                 vcRec, timer, jn, st, cb, meeting, discCalls, deregs, cancels, hist>>

\* the receive thread of a recording client whose socket was closed may hit
\* the socket error, stop recording and schedule the finish callback
socket_closed(j) ==
  /\ vcConn[j] \in {"closing", "failing", "closed"}
  /\ can_stop_recording(j)
  /\ stop_recording(j, "socket")
  /\ UNCHANGED <<bgVars, altVars, tenants, connections, recording_tasks, selfVc, voiceClients, vcConn,
                 timer, listener, jn, st, meeting, discCalls, deregs, cancels>>

EnvStep(j) == external_disconnect(j) \/ socket_closed(j)

\* ------------------------------------------- recording_finished_callback
\* sink.audio_data: speaker -> size of the speaker's audio buffer
BufSizes == {0, 1}
AudioMaps == UNION {[S -> BufSizes] : S \in SUBSET Speakers}
NonEmpty(a) == {u \in DOMAIN a : a[u] > 0}

RECURSIVE Ascending(_)
Ascending(S) ==
  IF S = {} THEN <<>>
  ELSE LET m == CHOOSE x \in S : \A y \in S : x <= y
       IN <<m>> \o Ascending(S \ {m})

\* recording.py:184-214: the loop over sink.audio_data.  A buffer of size 0
\* is skipped; for the others create_recording is awaited, which returns the
\* file id or None (db/meetings.py:71-101, it never raises), and the result
\* is appended to files and the speaker to recorded_users either way.
\* stored[u] tells whether the upload of u's buffer succeeded; the id of
\* u's file is u.
process_audio(a, stored) ==
  LET us == Ascending(NonEmpty(a))
  IN [files |-> [i \in 1..Len(us) |-> IF stored[us[i]] THEN us[i] ELSE None],
      users |-> us]

\* the callback's log gets one more collaborator call
logged(c0, j, e) == [c0 EXCEPT ![j].log = Append(@, e)]

\* the `except Exception` handler of the callback up to its first await, the
\* send of the "Recording Error" embed (recording.py:273-282)
callback_fail(j, c0) == cb' = [c0 EXCEPT ![j].pc = "error_send", ![j].raised = TRUE]

\* the `finally` of the callback (recording.py:285-287): _cleanup_recording
callback_finally(j, c0) ==
  \E fate \in DisconnectFates :
    LET c == cleanup_recording(Reg, GuildOf(j), fate)
    IN /\ SetReg(c.reg)
       /\ cb' = [logged(c0, j, "cleanup") EXCEPT
                   ![j].pc = IF c.wait # None THEN "disconnecting2" ELSE "done",
                   ![j].wait = c.wait]

\* recording.py:151-173, 184-199, 263-270: the callback starts: the timeout
\* task is cancelled, the entry registered for the guild NOW is looked up,
\* and the audio is inspected up to the first await
callback_start(j) ==
  /\ cb[j].pc = "pending"
  /\ LET g == GuildOf(j)
         r1 == cancel_timeout_task(Reg, g)
         c == connections[g]
     IN IF c = None
        THEN \* "No connection info found": return, then the finally
             LET cl == cleanup_recording(r1, g, "ok")
             IN /\ SetReg(cl.reg)
                /\ cb' = [logged(cb, j, "cleanup") EXCEPT ![j].pc = "done"]
                /\ UNCHANGED hist
        ELSE /\ SetReg(r1)
             /\ hist' = [hist EXCEPT ![c].fin = @ + 1]
             /\ \E a \in AudioMaps :
                  cb' = [cb EXCEPT ![j].conn = c, ![j].audio = a,
                           ![j].pc = IF a = <<>> THEN "no_audio_send"
                                     ELSE IF NonEmpty(a) # {} THEN "create_recording"
                                     ELSE "no_valid_send"]
  /\ UNCHANGED <<bgVars, altVars, tenants, selfVc, vcRec, jn, st, meeting>>

\* callback_no_audio_sent with the delete_meeting call forgotten: after the
\* embed the callback returns at once
callback_no_audio_sent_no_delete(j) ==
  /\ cb[j].pc = "no_audio_send"
  /\ \E ok \in BOOLEAN :
       IF ok
       THEN callback_finally(j, logged(cb, j, "send_no_audio"))
       ELSE /\ callback_fail(j, cb)
            /\ UNCHANGED <<connections, recording_tasks, timer, vcConn,
                           voiceClients, discCalls, deregs, cancels, listener>>
  /\ UNCHANGED <<bgVars, altVars, tenants, selfVc, vcRec, jn, st, meeting, hist>>

\* recording.py:173-177: the "no audio was captured" embed was sent (or the
\* send raised); delete_meeting(meeting.id) is issued, and meeting.id raises
\* AttributeError when create_meeting had returned None
callback_no_audio_sent(j) ==
  /\ cb[j].pc = "no_audio_send"
  /\ \E ok \in BOOLEAN :
       IF ~ok
       THEN callback_fail(j, cb) /\ UNCHANGED meeting
       ELSE IF meeting[cb[j].conn].state = "none"
       THEN callback_fail(j, logged(cb, j, "send_no_audio")) /\ UNCHANGED meeting
       ELSE /\ cb' = [logged(logged(cb, j, "send_no_audio"), j, "delete_meeting")
                        EXCEPT ![j].pc = "delete_meeting"]
            /\ meeting' = [meeting EXCEPT ![cb[j].conn].del = @ + 1]
  /\ UNCHANGED <<bgVars, altVars, tenants, connections, recording_tasks, selfVc, voiceClients, vcConn,
                 vcRec, timer, listener, jn, st, discCalls, deregs, cancels, hist>>

\* recording.py:175-178, 285-287: delete_meeting returned True or False
\* (db/meetings.py:48-68); return, then the finally
callback_meeting_deleted(j) ==
  /\ cb[j].pc = "delete_meeting"
  /\ \E ok \in BOOLEAN :
       meeting' = [meeting EXCEPT ![cb[j].conn].state = IF ok THEN "deleted" ELSE @]
  /\ callback_finally(j, cb)
  /\ UNCHANGED <<bgVars, altVars, tenants, selfVc, vcRec, jn, st, hist>>

\* callback_recordings_created with the size test of the loop dropped: every
\* buffer of the map is uploaded and every speaker recorded
callback_recordings_created_all_buffers(j) ==
  /\ cb[j].pc = "create_recording"
  /\ \E stored \in [DOMAIN cb[j].audio -> BOOLEAN] :
       LET us == Ascending(DOMAIN cb[j].audio)
       IN cb' = [cb EXCEPT ![j].files = [i \in 1..Len(us) |-> IF stored[us[i]] THEN us[i] ELSE None],
                           ![j].users = us,
                           ![j].log = @ \o [i \in 1..Len(us) |-> "create_recording"],
                           ![j].pc = "processing_send"]
  /\ UNCHANGED <<bgVars, altVars, tenants, connections, recording_tasks, selfVc, voiceClients, vcConn,
                 vcRec, timer, listener, jn, st, meeting, discCalls, deregs, cancels, hist>>

\* recording.py:184-223: every create_recording of the loop has returned;
\* files is not empty, so the "Processing recordings" message is sent
callback_recordings_created(j) ==
  /\ cb[j].pc = "create_recording"
  /\ \E stored \in [NonEmpty(cb[j].audio) -> BOOLEAN] :
       LET p == process_audio(cb[j].audio, stored)
       IN cb' = [cb EXCEPT ![j].files = p.files, ![j].users = p.users,
                           ![j].log = @ \o [i \in 1..Len(p.files) |-> "create_recording"],
                           ![j].pc = "processing_send"]
  /\ UNCHANGED <<bgVars, altVars, tenants, connections, recording_tasks, selfVc, voiceClients, vcConn,
                 vcRec, timer, listener, jn, st, meeting, discCalls, deregs, cancels, hist>>

\* recording.py:218-230: the message was sent (or the send raised); the
\* meeting object gets recordings, participants and end (AttributeError on
\* None) and update_meeting is issued
callback_processing_sent(j) ==
  /\ cb[j].pc = "processing_send"
  /\ \E ok \in BOOLEAN :
       IF ~ok
       THEN callback_fail(j, cb) /\ UNCHANGED meeting
       ELSE IF meeting[cb[j].conn].state = "none"
       THEN callback_fail(j, logged(cb, j, "send_processing")) /\ UNCHANGED meeting
       ELSE /\ cb' = [logged(logged(cb, j, "send_processing"), j, "update_meeting")
                        EXCEPT ![j].pc = "update_meeting"]
            /\ meeting' = [meeting EXCEPT ![cb[j].conn].recs = cb[j].files,
                                          ![cb[j].conn].parts = cb[j].users,
                                          ![cb[j].conn].upd = @ + 1]
  /\ UNCHANGED <<bgVars, altVars, tenants, connections, recording_tasks, selfVc, voiceClients, vcConn,
                 vcRec, timer, listener, jn, st, discCalls, deregs, cancels, hist>>

\* recording.py:230-249: update_meeting returned True or False
\* (db/meetings.py:104-126); the "Recording Complete!" edit is issued
callback_meeting_updated(j) ==
  /\ cb[j].pc = "update_meeting"
  /\ \E ok \in BOOLEAN :
       meeting' = [meeting EXCEPT ![cb[j].conn].state =
                     IF ok /\ @ # "deleted" THEN "updated" ELSE @]
  /\ cb' = [cb EXCEPT ![j].pc = "message_edit"]
  /\ UNCHANGED <<bgVars, altVars, tenants, connections, recording_tasks, selfVc, voiceClients, vcConn,
                 vcRec, timer, listener, jn, st, discCalls, deregs, cancels, hist>>

\* start_transcription(meeting=meeting) is issued (recording.py:251)
call_start_transcription(j, c0) ==
  cb' = [logged(c0, j, "start_transcription") EXCEPT
           ![j].pc = "transcription", ![j].wait = None]

\* recording.py:249-251: the edit returned (or raised); _cleanup_recording,
\* then start_transcription
callback_message_edited(j) ==
  /\ cb[j].pc = "message_edit"
  /\ \E ok \in BOOLEAN :
       IF ok
       THEN \E fate \in DisconnectFates :
              LET c == cleanup_recording(Reg, GuildOf(j), fate)
                  c0 == logged(logged(cb, j, "edit_complete"), j, "cleanup")
              IN /\ SetReg(c.reg)
                 /\ IF c.wait # None
                    THEN cb' = [c0 EXCEPT ![j].pc = "disconnecting1", ![j].wait = c.wait]
                    ELSE call_start_transcription(j, c0)
       ELSE /\ callback_fail(j, cb)
            /\ UNCHANGED <<connections, recording_tasks, timer, vcConn,
                           voiceClients, discCalls, deregs, cancels, listener>>
  /\ UNCHANGED <<bgVars, altVars, tenants, selfVc, vcRec, jn, st, meeting, hist>>

\* recording.py:391-394 on behalf of the callback's first cleanup
callback_cleaned(j) ==
  /\ cb[j].pc = "disconnecting1"
  /\ SetReg(cleanup_resume(Reg, GuildOf(j), cb[j].wait))
  /\ call_start_transcription(j, cb)
  /\ UNCHANGED <<bgVars, altVars, tenants, selfVc, vcRec, jn, st, meeting, hist>>

\* recording.py:251-261: start_transcription returned True or False
\* (ai/transcription.py:16-81); on True the success embed is sent, on False
\* the callback returns, then the finally
callback_transcribed(j) ==
  /\ cb[j].pc = "transcription"
  /\ \E ok \in BOOLEAN :
       IF ok
       THEN /\ cb' = [cb EXCEPT ![j].pc = "success_send"]
            /\ UNCHANGED <<connections, recording_tasks, timer, vcConn,
                           voiceClients, discCalls, deregs, cancels, listener>>
       ELSE callback_finally(j, cb)
  /\ UNCHANGED <<bgVars, altVars, tenants, selfVc, vcRec, jn, st, meeting, hist>>

\* recording.py:253-261, 285-287: the "Transcription success!" embed was
\* sent: return, then the finally; when the send raised, the error handler
callback_success_sent(j) ==
  /\ cb[j].pc = "success_send"
  /\ \E ok \in BOOLEAN :
       IF ok
       THEN callback_finally(j, logged(cb, j, "send_success"))
       ELSE /\ callback_fail(j, cb)
            /\ UNCHANGED <<connections, recording_tasks, timer, vcConn,
                           voiceClients, discCalls, deregs, cancels, listener>>
  /\ UNCHANGED <<bgVars, altVars, tenants, selfVc, vcRec, jn, st, meeting, hist>>

\* recording.py:263-271, 285-287: the "no valid audio files" embed was sent:
\* the try block ends, then the finally; when the send raised, the handler
callback_no_valid_sent(j) ==
  /\ cb[j].pc = "no_valid_send"
  /\ \E ok \in BOOLEAN :
       IF ok
       THEN callback_finally(j, logged(cb, j, "send_no_valid"))
       ELSE /\ callback_fail(j, cb)
            /\ UNCHANGED <<connections, recording_tasks, timer, vcConn,
                           voiceClients, discCalls, deregs, cancels, listener>>
  /\ UNCHANGED <<bgVars, altVars, tenants, selfVc, vcRec, jn, st, meeting, hist>>

\* recording.py:276-287: the "Recording Error" embed was sent (a failure of
\* the send is caught and logged), then the finally
callback_error_sent(j) ==
  /\ cb[j].pc = "error_send"
  /\ \E ok \in BOOLEAN :
       callback_finally(j, IF ok THEN logged(cb, j, "send_error") ELSE cb)
  /\ UNCHANGED <<bgVars, altVars, tenants, selfVc, vcRec, jn, st, meeting, hist>>

\* recording.py:391-394 on behalf of the callback's finally
callback_finished(j) ==
  /\ cb[j].pc = "disconnecting2"
  /\ SetReg(cleanup_resume(Reg, GuildOf(j), cb[j].wait))
  /\ cb' = [cb EXCEPT ![j].pc = "done", ![j].wait = None]
  /\ UNCHANGED <<bgVars, altVars, tenants, selfVc, vcRec, jn, st, meeting, hist>>

CallbackStep(j) ==
  \/ callback_start(j) \/ callback_no_audio_sent(j) \/ callback_meeting_deleted(j)
  \/ callback_recordings_created(j) \/ callback_processing_sent(j)
  \/ callback_meeting_updated(j) \/ callback_message_edited(j) \/ callback_cleaned(j)
  \/ callback_transcribed(j) \/ callback_success_sent(j) \/ callback_no_valid_sent(j)
  \/ callback_error_sent(j) \/ callback_finished(j)

\* ------------------------------------------- RecordingAlternative cog
\* cogs/recording_alternative.py.  A guild gets one /record_alt and one
\* /stop_recording_alt in a run, so the entry, the voice client, the
\* recorder, the timeout task and the handlers are named by the guild.
\* alt.connections is the key list of the dict, in insertion order.

\* `guild_id in self.connections`
alt_registered(a, g) == \E i \in 1..Len(a.connections) : a.connections[i] = g

\* `del self.connections[guild_id]` (recording_alternative.py:325)
alt_del_connection(a, g) ==
  [a EXCEPT !.connections = SelectSeq(@, LAMBDA x : x # g)]

\* `if guild_id in self.recording_tasks: task.cancel(); del ...`
\* (recording_alternative.py:120-122 and 312-314)
alt_cancel_timeout_task(a, g) ==
  IF g \in a.recording_tasks
  THEN [a EXCEPT !.s[g].task = task_cancel(@), !.recording_tasks = @ \ {g}]
  ELSE a

\* _cleanup_recording up to `await vc.disconnect()`
\* (recording_alternative.py:308-322); wait: the caller is suspended on it
alt_cleanup_recording(a, g, fate) ==
  LET a1 == alt_cancel_timeout_task(a, g)
  IN IF ~alt_registered(a1, g) THEN [a |-> a1, wait |-> FALSE]
     ELSE IF a1.s[g].vc = "connected"
          THEN [a |-> [a1 EXCEPT !.s[g].vc = IF fate = "ok" THEN "closing" ELSE "failing",
                                  !.s[g].ev = IF fate = "raise_early" THEN @ ELSE "pending"],
                wait |-> TRUE]
          ELSE [a |-> alt_del_connection(a1, g), wait |-> FALSE]

\* _cleanup_recording after `await vc.disconnect()`
\* (recording_alternative.py:322-328): a raise skips the `del`
alt_cleanup_resume(a, g) ==
  LET a1 == [a EXCEPT !.s[g].vc = "closed"]
  IN IF a.s[g].vc = "failing" THEN a1 ELSE alt_del_connection(a1, g)

\* recording_alternative.py:31-57: the two checks, ctx.defer(), and the
\* call of voice.channel.connect()
record_alt(g) ==
  /\ alt.s[g].start = "idle"
  /\ \E voice \in BOOLEAN :
       alt' = [alt EXCEPT !.s[g] =
                 IF ~voice
                 THEN [@ EXCEPT !.start = "done", !.out = "NotInVoiceChannel"]
                 ELSE IF alt_registered(alt, g)
                 THEN [@ EXCEPT !.start = "done", !.out = "AlreadyRecording"]
                 ELSE [@ EXCEPT !.start = "connect"]]
  /\ UNCHANGED <<recVars, status_update_task>>

\* recording_alternative.py:54-64: defer and connect returned, timed out or
\* raised; on success the status message send is issued
record_alt_connected(g) ==
  /\ alt.s[g].start = "connect"
  /\ \E res \in {"ok", "timeout", "error"} :
       alt' = [alt EXCEPT !.s[g] =
                 CASE res = "ok" -> [@ EXCEPT !.vc = "connected", !.start = "status_send"]
                   [] res = "timeout" -> [@ EXCEPT !.start = "timeout_send"]
                   [] OTHER -> [@ EXCEPT !.start = "error_send"]]
  /\ UNCHANGED <<recVars, status_update_task>>

\* recording_alternative.py:64-92: the status message was sent; the entry is
\* stored, vc.start_recording is called (it raises when the client is no
\* longer connected) and the timeout task is created, all without an await
record_alt_status_sent(g) ==
  /\ alt.s[g].start = "status_send"
  /\ \E res \in {"ok", "timeout", "error"} :
       alt' =
         CASE res = "ok" ->
                LET a1 == [alt EXCEPT !.connections =
                             IF alt_registered(alt, g) THEN @ ELSE Append(@, g)]
                IN IF alt.s[g].vc = "connected" /\ alt.s[g].rec = "idle"
                   THEN [a1 EXCEPT !.s[g].rec = "recording",
                                   !.s[g].task = "sleeping",
                                   !.recording_tasks = @ \cup {g},
                                   !.s[g].start = "done", !.s[g].out = "Started"]
                   ELSE [a1 EXCEPT !.s[g].start = "error_send"]
           [] res = "timeout" -> [alt EXCEPT !.s[g].start = "timeout_send"]
           [] OTHER -> [alt EXCEPT !.s[g].start = "error_send"]
  /\ UNCHANGED <<recVars, status_update_task>>

\* recording_alternative.py:94-101: the "Connection Timeout" embed was sent
record_alt_timeout_sent(g) ==
  /\ alt.s[g].start = "timeout_send"
  /\ alt' = [alt EXCEPT !.s[g].start = "done", !.s[g].out = "ConnectionTimeout"]
  /\ UNCHANGED <<recVars, status_update_task>>

\* recording_alternative.py:102-112: the "Recording Failed" embed was sent,
\* then _cleanup_recording.  The voice client of a /record_alt that fails
\* after its registration is not connected, so this cleanup never waits for
\* a disconnect.
record_alt_error_sent(g) ==
  /\ alt.s[g].start = "error_send"
  /\ \E ok \in BOOLEAN :
       alt' = IF ok
              THEN [alt_cleanup_recording(alt, g, "ok").a
                      EXCEPT !.s[g].start = "done", !.s[g].out = "RecordingFailed"]
              ELSE [alt EXCEPT !.s[g].start = "done", !.s[g].out = "Crashed"]
  /\ UNCHANGED <<recVars, status_update_task>>

\* vc.stop_recording() of the guild's client: the finish callback is scheduled
alt_stop_recording(a, g) == [a EXCEPT !.s[g].rec = "stopped", !.s[g].cb = "pending"]

\* recording_alternative.py:221-243: /stop_recording_alt up to its first
\* await: "Not Recording", or vc.stop_recording() (which raises unless the
\* client is recording) and the respond
stop_recording_alt(g) ==
  /\ alt.s[g].stop = "idle"
  /\ alt' = IF ~alt_registered(alt, g)
            THEN [alt EXCEPT !.s[g].stop = "done", !.s[g].sout = "NotRecording"]
            ELSE IF alt.s[g].rec = "recording"
            THEN [alt_stop_recording(alt, g) EXCEPT !.s[g].stop = "respond"]
            ELSE [alt EXCEPT !.s[g].stop = "error_respond"]
  /\ UNCHANGED <<recVars, status_update_task>>

\* recording_alternative.py:243-253: the "Stopping Recording" respond
\* returned or raised
stop_alt_responded(g) ==
  /\ alt.s[g].stop = "respond"
  /\ \E ok \in BOOLEAN :
       alt' = [alt EXCEPT !.s[g] =
                 IF ok THEN [@ EXCEPT !.stop = "done", !.sout = "Stopped"]
                 ELSE [@ EXCEPT !.stop = "error_respond"]]
  /\ UNCHANGED <<recVars, status_update_task>>

\* recording_alternative.py:253-255: the "Stop Error" respond returned, then
\* the forced _cleanup_recording; when the respond raised, it is not reached
stop_alt_error_responded(g) ==
  /\ alt.s[g].stop = "error_respond"
  /\ \E ok \in BOOLEAN :
       IF ok
       THEN \E fate \in DisconnectFates :
              LET c == alt_cleanup_recording(alt, g, fate)
              IN alt' = [c.a EXCEPT !.s[g] =
                           IF c.wait THEN [@ EXCEPT !.stop = "disconnecting"]
                           ELSE [@ EXCEPT !.stop = "done", !.sout = "StopError"]]
       ELSE alt' = [alt EXCEPT !.s[g].stop = "done", !.s[g].sout = "Crashed"]
  /\ UNCHANGED <<recVars, status_update_task>>

\* recording_alternative.py:322-328 on behalf of /stop_recording_alt
stop_alt_cleaned(g) ==
  /\ alt.s[g].stop = "disconnecting"
  /\ alt' = [alt_cleanup_resume(alt, g) EXCEPT !.s[g].stop = "done",
                                               !.s[g].sout = "StopError"]
  /\ UNCHANGED <<recVars, status_update_task>>

\* recording_alternative.py:279-306: the sleep of the timeout task is over
alt_auto_stop_recording(g) ==
  /\ alt.s[g].task = "sleeping"
  /\ alt' = IF alt_registered(alt, g)
            THEN IF alt.s[g].rec = "recording"
                 THEN [alt_stop_recording(alt, g) EXCEPT !.s[g].task = "sending"]
                 ELSE [alt EXCEPT !.s[g].task = "failed"]
            ELSE [alt EXCEPT !.s[g].task = "done"]
  /\ UNCHANGED <<recVars, status_update_task>>

\* recording_alternative.py:293-301: the "Recording Timeout" embed was sent
alt_auto_stop_sent(g) ==
  /\ alt.s[g].task = "sending"
  /\ alt' = [alt EXCEPT !.s[g].task = "done"]
  /\ UNCHANGED <<recVars, status_update_task>>

\* the `finally` of the callback (recording_alternative.py:213-215)
alt_callback_finally(g, a) ==
  \E fate \in DisconnectFates :
    LET c == alt_cleanup_recording(a, g, fate)
    IN alt' = [c.a EXCEPT !.s[g].cb = IF c.wait THEN "disconnecting" ELSE "done"]

\* recording_alternative.py:114-198: the callback cancels the timeout task,
\* looks the entry up, builds the files and sends one of its three embeds
alt_callback_start(g) ==
  /\ alt.s[g].cb = "pending"
  /\ LET a1 == alt_cancel_timeout_task(alt, g)
     IN IF alt_registered(a1, g)
        THEN alt' = [a1 EXCEPT !.s[g].cb = "send"]
        ELSE alt_callback_finally(g, a1)
  /\ UNCHANGED <<recVars, status_update_task>>

\* recording_alternative.py:136-215: the embed was sent: the finally; the
\* send raised: the "Recording Error" embed is sent
alt_callback_sent(g) ==
  /\ alt.s[g].cb = "send"
  /\ \E ok \in BOOLEAN :
       IF ok THEN alt_callback_finally(g, alt)
       ELSE alt' = [alt EXCEPT !.s[g].cb = "error_send", !.s[g].raised = TRUE]
  /\ UNCHANGED <<recVars, status_update_task>>

\* recording_alternative.py:201-215: the error embed was sent (or not)
alt_callback_error_sent(g) ==
  /\ alt.s[g].cb = "error_send"
  /\ alt_callback_finally(g, alt)
  /\ UNCHANGED <<recVars, status_update_task>>

\* recording_alternative.py:322-328 on behalf of the callback's finally
alt_callback_finished(g) ==
  /\ alt.s[g].cb = "disconnecting"
  /\ alt' = [alt_cleanup_resume(alt, g) EXCEPT !.s[g].cb = "done"]
  /\ UNCHANGED <<recVars, status_update_task>>

\* the platform drops the voice connection of the guild
alt_external_disconnect(g) ==
  /\ alt.s[g].vc = "connected"
  /\ alt' = [alt EXCEPT !.s[g].vc = "closed", !.s[g].ev = "pending"]
  /\ UNCHANGED <<recVars, status_update_task>>

\* the receive thread of a recording client whose socket was closed stops
\* recording and schedules the finish callback
alt_socket_closed(g) ==
  /\ alt.s[g].vc \in {"closing", "failing", "closed"}
  /\ alt.s[g].rec = "recording"
  /\ alt' = alt_stop_recording(alt, g)
  /\ UNCHANGED <<recVars, status_update_task>>

\* recording_alternative.py:331-340: the bot left the guild's voice channel;
\* the entry whose client is in that channel is cleaned up (its client is
\* not connected any more, so the cleanup does not wait)
alt_on_voice_state_update(g) ==
  /\ alt.s[g].ev = "pending"
  /\ alt' = [(IF alt_registered(alt, g)
              THEN alt_cleanup_recording(alt, g, "ok").a ELSE alt)
               EXCEPT !.s[g].ev = "done"]
  /\ UNCHANGED <<recVars, status_update_task>>

\* ---------------------------------------------------- status_update_task
\* the edit of the status message of guild g is issued
\* (recording_alternative.py:377-383), for the entry the snapshot holds
issue_edit(t, g) ==
  [t EXCEPT !.pc = "editing", !.tried = Append(@, g),
            !.edit = [g |-> g, registered |-> alt_registered(alt, g),
                      rec |-> alt.s[g].rec]]

\* the for loop goes on with the rest of the snapshot, or the iteration of
\* the loop is over and the task sleeps for a second
next_item(t) ==
  IF t.todo # <<>>
  THEN issue_edit([t EXCEPT !.todo = Tail(@)], Head(t.todo))
  ELSE [t EXCEPT !.pc = "sleeping", !.n = @ + 1]

\* recording_alternative.py:372-383: an iteration of the loop begins with a
\* snapshot, `list(self.connections.items())`
status_update_begin ==
  /\ status_update_task.pc = "sleeping"
  /\ status_update_task.running
  /\ status_update_task.n < MaxTicks
  /\ status_update_task' =
       next_item([status_update_task EXCEPT !.snap = alt.connections,
                                            !.todo = alt.connections,
                                            !.tried = <<>>, !.errors = 0])
  /\ UNCHANGED <<recVars, alt>>

\* status_update_edited with the try around the whole for loop instead of
\* inside it: an edit that raises ends the iteration and stops the loop
status_update_edited_aborting ==
  /\ status_update_task.pc = "editing"
  /\ \E ok \in BOOLEAN :
       status_update_task' =
         IF ok THEN next_item(status_update_task)
         ELSE [status_update_task EXCEPT !.pc = "sleeping", !.errors = @ + 1,
                                         !.n = @ + 1, !.running = FALSE]
  /\ UNCHANGED <<recVars, alt>>

\* recording_alternative.py:383-385: the edit returned, or it raised and
\* the `except Exception` inside the for loop logged it
status_update_edited ==
  /\ status_update_task.pc = "editing"
  /\ \E ok \in BOOLEAN :
       status_update_task' =
         next_item([status_update_task EXCEPT !.errors = IF ok THEN @ ELSE @ + 1])
  /\ UNCHANGED <<recVars, alt>>

TickStep == status_update_begin \/ status_update_edited

\* ------------------------------------------- send_packet and cog_unload
\* recording.py:493-506: one iteration of the send_packet loop.  The packet
\* goes to self.vc, the voice client of the /join that registered last, and
\* to no other; on a client that is no longer connected the send raises and
\* the exception is printed.
send_packet ==
  /\ keepalive.running
  /\ keepalive.n < MaxTicks
  /\ keepalive' = [keepalive EXCEPT
                     !.n = @ + 1,
                     !.sent = IF selfVc # None /\ vcConn[selfVc] = "connected"
                              THEN {selfVc} ELSE {}]
  /\ UNCHANGED <<unload, sessVars, altVars>>

\* recording.py:411-420: cog_unload.  Its first statement,
\* self.socket_keepalive.cancel(), raises AttributeError (the loop of that
\* name is commented out, recording.py:477-490), so neither the cancel of a
\* background task nor the loop that creates the cleanup tasks is reached:
\* the exception leaves cog_unload.
cog_unload ==
  /\ ~unload.called
  /\ unload' = [unload EXCEPT !.called = TRUE, !.raised = TRUE]
  /\ UNCHANGED <<keepalive, sessVars, altVars>>

\* ------------------------------------------------------- specifications
\* a /join that is the only one of its guild: its error cleanup never finds
\* a connected voice client (it fails before it registers, or because its
\* own client is no longer connected), so join_cleaned has no part in it
JoinAlone(j) ==
  \/ join(j) \/ join_deferred(j) \/ join_connected(j) \/ join_status_sent(j)
  \/ join_meeting_created(j) \/ join_sound_played(j) \/ join_timeout_sent(j)
  \/ join_error_sent(j)

\* concurrent /join handlers of one guild, with the cleanup of a failed one
\* and the voice-state events that the cleanup's disconnect produces (each
\* event finds the entry of a client that is already disconnected)
NextStart ==
  \/ \E j \in Joins : JoinStep(j)
  \/ \E j \in Joins : on_voice_state_update(j)

SpecStart == Init /\ [][NextStart]_vars

\* one session and the manual stop requests racing for it
NextStop ==
  \/ JoinAlone(1)
  \/ \E k \in Stops : StopStep(k)
  \/ CallbackStep(1)
  \/ on_voice_state_update(1)

SpecStop == Init /\ [][NextStop]_vars

\* one session, finalized after a manual stop, the timeout or a dropped
\* connection, with every failure of a collaborator
NextFinalize ==
  \/ JoinAlone(1)
  \/ StopStep(1)
  \/ TimerStep(1)
  \/ CallbackStep(1)
  \/ on_voice_state_update(1)
  \/ EnvStep(1)

SpecFinalize == Init /\ [][NextFinalize]_vars

\* a session, one manual stop, and further /join invocations while the
\* first session is being finalized
NextRestart ==
  \/ \E j \in Joins : JoinStep(j)
  \/ StopStep(1)
  \/ \E j \in Joins : CallbackStep(j)

SpecRestart == Init /\ [][NextRestart]_vars

\* /join handlers of one guild that overlap with each other, with drops of
\* the voice connection, the voice-state listener and the timeout tasks
\* (finish callbacks that get scheduled have not started yet)
NextOverlap ==
  \/ \E j \in Joins : JoinStep(j)
  \/ \E j \in Joins : external_disconnect(j)
  \/ \E j \in Joins : ListenerStep(j)
  \/ \E j \in Joins : TimerStep(j)

SpecOverlap == Init /\ [][NextOverlap]_vars

\* one session that nobody stops and whose connection is not dropped: only
\* its timeout task ends it.  The event loop runs every task that is ready
\* (a sleep that is over, an await whose result arrived), so no step that
\* stays possible is postponed for ever.
NextTimeout ==
  \/ JoinAlone(1)
  \/ TimerStep(1)
  \/ CallbackStep(1)
  \/ on_voice_state_update(1)

SpecTimeout == Init /\ [][NextTimeout]_vars /\ WF_vars(NextTimeout)

\* a session of the RecordingAlternative cog that is started and stopped by
\* command, with no timeout and no dropped connection
AltManual(g) ==
  \/ record_alt(g) \/ record_alt_connected(g) \/ record_alt_status_sent(g)
  \/ record_alt_timeout_sent(g) \/ record_alt_error_sent(g)
  \/ stop_recording_alt(g) \/ stop_alt_responded(g) \/ stop_alt_error_responded(g)
  \/ stop_alt_cleaned(g)
  \/ alt_callback_start(g) \/ alt_callback_sent(g) \/ alt_callback_error_sent(g)
  \/ alt_callback_finished(g)

\* a session of the RecordingAlternative cog that nobody stops by command:
\* its timeout task or a drop of its connection ends it
AltTimed(g) ==
  \/ record_alt(g) \/ record_alt_connected(g) \/ record_alt_status_sent(g)
  \/ record_alt_timeout_sent(g) \/ record_alt_error_sent(g)
  \/ alt_auto_stop_recording(g) \/ alt_auto_stop_sent(g)
  \/ alt_callback_start(g) \/ alt_callback_sent(g) \/ alt_callback_error_sent(g)
  \/ alt_callback_finished(g)
  \/ alt_external_disconnect(g) \/ alt_socket_closed(g)
  \/ alt_on_voice_state_update(g)

\* the RecordingAlternative cog with a session in each of two guilds (one of
\* them with its timeout and with drops of its connection) and the status
\* tick
NextTick ==
  \/ AltTimed("G1")
  \/ AltManual("G2")
  \/ TickStep

SpecTick == Init /\ [][NextTick]_vars

\* commands are issued in both guilds
InitTenants == tenants = Guilds /\ InitCommon

\* a handler of the second session (or the manual stop request) is
\* suspended at one of its awaits
MidFlight(p) ==
  CASE p = "join" -> jn[2].pc \notin {"idle", "done"}
    [] p = "stop" -> st[1].pc \notin {"idle", "done"}
    [] p = "callback" -> cb[2].pc \notin {"none", "pending", "done"}
    [] p = "timer" -> timer[2] = "sending"
    [] p = "listener" -> listener[2].pc = "disconnecting"

\* the first /join is over and no handler other than p is suspended
Alone(p) ==
  /\ jn[1].pc = "done"
  /\ \A q \in {"join", "stop", "callback", "timer", "listener"} \ {p} : ~MidFlight(q)

\* two guilds: a /join in G1 and a /join in G2 that overlap; once the first
\* one is over, the session of G2 is stopped (by a manual stop request in
\* either guild, its timeout task or a drop of its connection) and
\* finalized, one handler at a time
NextTenants ==
  \/ JoinAlone(1) /\ jn'[1].g = "G1"
  \/ JoinAlone(2) /\ jn'[2].g = "G2"
  \/ Alone("stop") /\ StopStep(1)
  \/ Alone("timer") /\ TimerStep(2)
  \/ Alone("callback") /\ CallbackStep(2)
  \/ Alone("listener") /\ on_voice_state_update(2)
  \/ jn[1].pc = "done" /\ EnvStep(2)

SpecTenants == InitTenants /\ [][NextTenants]_vars

\* no command handler and no finish callback is suspended at an await
Settled ==
  /\ \A j \in Joins : jn[j].pc \in {"idle", "done"}
  /\ \A k \in Stops : st[k].pc \in {"idle", "done"}
  /\ \A j \in Joins : cb[j].pc \in {"none", "pending", "done"}

\* two guilds with one session each, started one after the other; the
\* session started last is then stopped by a manual stop request and
\* finalized by its finish callback; the keepalive loop iterates and the
\* cog is unloaded while no handler is suspended
NextBackground ==
  \/ JoinAlone(1) /\ jn'[1].g = "G1"
  \/ jn[1].pc = "done" /\ JoinAlone(2) /\ jn'[2].g = "G2"
  \/ jn[2].pc = "done" /\ StopStep(1) /\ st'[1].g = "G2"
  \/ CallbackStep(2)
  \/ Settled /\ send_packet
  \/ Settled /\ cog_unload

SpecBackground == InitTenants /\ [][NextBackground]_vars

\* ---------------------------------------------------------------- claims
\* no handler, callback or listener is in flight, no timeout task is past
\* its sleep: nothing more happens unless a user or the platform acts or a
\* sleeping timeout task of another session fires
Quiet ==
  /\ \A j \in Joins : /\ jn[j].pc \in {"idle", "done"}
                      /\ cb[j].pc \in {"none", "done"}
                      /\ listener[j].pc \in {"none", "done"}
                      /\ timer[j] # "sending"
  /\ \A k \in Stops : st[k].pc \in {"idle", "done"}

\* the platform dropped voice client j (the cog never called disconnect on it)
Dropped(j) == listener[j].pc # "none" /\ discCalls[j] = 0

InLog(j, e) == \E i \in 1..Len(cb[j].log) : cb[j].log[i] = e

\* a /join that was hit by a failure of the platform or of the network
JoinFault(j) ==
  \/ jn[j].out \in {"ConnectionTimeout", "Crashed"}
  \/ jn[j].err \in {"defer", "connect", "status_send"}

\* C1: when every /join of a run was issued from a voice channel for the
\* same guild and none was hit by a platform failure, exactly one of them
\* ends as Started and every other one as AlreadyRecording
C1_OneStartOthersAlreadyRecording ==
  (\A j \in Joins : jn[j].pc = "done" /\ jn[j].out # "NotInVoiceChannel" /\ ~JoinFault(j))
  => \E w \in Joins : /\ jn[w].out = "Started"
                      /\ \A l \in Joins \ {w} : jn[l].out = "AlreadyRecording"

\* C2: once the finish callback of a session has returned, the finalize
\* pipeline has run exactly once on that session's entry
C2_SingleFinalize ==
  \A j \in Joins : cb[j].pc = "done" => hist[j].fin = 1

\* C3: when a session was told to stop, its connection was not dropped by
\* the platform and everything has come to rest, vc.disconnect() was called
\* exactly once on its voice client and its entry was deleted exactly once
C3_ReleasedExactlyOnce ==
  \A j \in Joins :
    (Quiet /\ vcRec[j] = "stopped" /\ ~Dropped(j))
    => (discCalls[j] = 1 /\ deregs[j] = 1)

\* C4: a stop request that finds the session already told to stop returns
\* success and performs no cleanup step
C4_LateStopHarmless ==
  \A k \in Stops :
    st[k].late => /\ st[k].pc \notin {"error_respond", "disconnecting"}
                  /\ st[k].out \notin {"StopError", "Crashed"}

\* C5: a session whose connection the platform dropped while it was
\* recording is deregistered only after the finalize pipeline ran on it
C5_DropDrivesFinalize ==
  \A j \in Joins :
    (Dropped(j) /\ vcRec[j] # "idle" /\ deregs[j] > 0) => hist[j].fin = 1

\* C6: when the finish callback returns after one of its steps raised, the
\* session's voice client is disconnected and its entry is removed
C6_CleanupOnFinalizeFailure ==
  \A j \in Joins :
    (cb[j].pc = "done" /\ cb[j].raised)
    => /\ connections[GuildOf(j)] # cb[j].conn
       /\ vcConn[cb[j].conn] # "connected"

\* C7: once a session was told to stop and everything has come to rest, the
\* session has no entry in connections and no task in recording_tasks
C7_NoPhantomSession ==
  \A j \in Joins :
    (Quiet /\ vcRec[j] = "stopped")
    => (connections[GuildOf(j)] # j /\ recording_tasks[GuildOf(j)] # j)

\* C8: while a finish callback is between its first and its last step, no
\* session other than the one it finalizes is registered for the guild
\* (stated for the runs in which no step of the callback raised and no
\* manual stop ran into its error handler)
C8_FinalizeBeforeReregistration ==
  \A j \in Joins :
    (/\ cb[j].conn # None /\ cb[j].pc # "done" /\ ~cb[j].raised
     /\ \A k \in Stops : st[k].pc \notin {"error_respond", "disconnecting"}
                         /\ st[k].out \notin {"StopError", "Crashed"})
    => connections[GuildOf(j)] \in {None, cb[j].conn}

C10_NoNonEmptyBufferDeletesMeeting ==
  \A j \in Joins :
    (cb[j].pc = "done" /\ ~cb[j].raised /\ cb[j].conn # None /\ NonEmpty(cb[j].audio) = {})
    => /\ InLog(j, "send_no_audio") \/ InLog(j, "send_no_valid")
       /\ InLog(j, "delete_meeting")

\* number of times the callback of vc j made the collaborator call e
Calls(j, e) == Cardinality({i \in 1..Len(cb[j].log) : cb[j].log[i] = e})

\* the elements of a sequence
Range(s) == {s[i] : i \in 1..Len(s)}

\* C11: once the loop over the audio map of a finish callback is over,
\* create_recording was called as many times as there are buffers of
\* non-zero size (one call per such buffer, none for an empty one), and when
\* the callback has written the meeting record, the participants written are
\* exactly the speakers of the buffers of non-zero size, each once
C11_PersistPerNonEmptyBuffer ==
  \A j \in Joins :
    (cb[j].conn # None /\ cb[j].pc # "create_recording")
    => /\ Calls(j, "create_recording") = Cardinality(NonEmpty(cb[j].audio))
       /\ Len(cb[j].files) = Calls(j, "create_recording")
       /\ InLog(j, "update_meeting")
          => /\ Range(meeting[cb[j].conn].parts) = NonEmpty(cb[j].audio)
             /\ Len(meeting[cb[j].conn].parts) = Cardinality(NonEmpty(cb[j].audio))
             /\ Len(meeting[cb[j].conn].recs) = Cardinality(NonEmpty(cb[j].audio))

\* a callback wrote the meeting record for an audio map that holds an empty
\* buffer beside a buffer of non-zero size
C11_Witness ==
  \E j \in Joins :
    /\ cb[j].conn # None /\ InLog(j, "update_meeting")
    /\ NonEmpty(cb[j].audio) # {}
    /\ NonEmpty(cb[j].audio) # DOMAIN cb[j].audio

\* start_transcription returned False to the callback of vc j: the callback
\* went on to its finally without the success embed and without an exception
TranscriptionFailed(j) ==
  /\ InLog(j, "start_transcription")
  /\ cb[j].pc \in {"disconnecting2", "done"}
  /\ ~cb[j].raised
  /\ ~InLog(j, "send_success")

\* C12: when start_transcription failed after the recordings were persisted,
\* the callback has published a failure message to the text channel by the
\* time it returns, and the session is deregistered and its voice client
\* disconnected
C12_TranscriptionFailureSurfaced ==
  \A j \in Joins :
    (cb[j].pc = "done" /\ TranscriptionFailed(j))
    => /\ InLog(j, "send_error")
       /\ connections[GuildOf(j)] # cb[j].conn
       /\ vcConn[cb[j].conn] # "connected"

\* C13: once a manual stop has stopped a session's recorder, the session's
\* timeout task never gets past its sleep (no vc.stop_recording() from
\* _auto_stop_recording, no "Recording Timeout" message), and when the finish
\* callback has returned, the finalize pipeline ran once on the session and
\* the task was cancelled
C13_ManualStopCancelsTimer ==
  \A j \in Joins :
    hist[j].by = "manual"
    => /\ timer[j] \notin {"sending", "failed"}
       /\ cb[j].pc = "done" => (hist[j].fin = 1 /\ timer[j] = "cancelled")

\* C14: task.cancel() is never called twice on a session's timeout task, a
\* task that was armed and is no longer kept in recording_tasks has been
\* cancelled exactly once, and the finalize pipeline never runs a second
\* time on a session
C14_TimerCancelledExactlyOnce ==
  \A j \in Joins :
    /\ cancels[j] <= 1
    /\ (timer[j] # "none" /\ recording_tasks[GuildOf(j)] # j) => cancels[j] = 1
    /\ hist[j].fin <= 1

\* the session of join j was stopped by the trigger `by` and by nothing
\* else: no manual stop request was made beside a timeout, and beside a
\* manual stop the timeout task did not wake up and no stop request ran into
\* its error handler
SoleTrigger(j, by) ==
  /\ hist[j].by = by
  /\ by = "timeout" => \A k \in Stops : st[k].pc = "idle"
  /\ by = "manual" => /\ timer[j] \notin {"sending", "failed", "done"}
                      /\ \A k \in Stops : /\ st[k].pc \notin {"error_respond", "disconnecting"}
                                          /\ st[k].out \notin {"StopError", "Crashed"}

\* vc.disconnect() of voice client j raised inside _cleanup_recording, which
\* skipped its `del`: the cog called disconnect, the entry was never deleted,
\* and the voice-state event of the disconnect, if there is one, has not
\* been handled yet
DisconnectRaised(j) ==
  /\ discCalls[j] > 0 /\ deregs[j] = 0
  /\ listener[j].pc \in {"none", "pending"}

\* the collaborator calls of a finalize in which nothing raises, for the
\* audio map a and the result ts of start_transcription
ExpectedCalls(a, ts) ==
  IF a = <<>> THEN <<"send_no_audio", "delete_meeting", "cleanup">>
  ELSE IF NonEmpty(a) = {} THEN <<"send_no_valid", "cleanup">>
  ELSE [i \in 1..Cardinality(NonEmpty(a)) |-> "create_recording"]
       \o <<"send_processing", "update_meeting", "edit_complete", "cleanup",
            "start_transcription">>
       \o (IF ts THEN <<"send_success">> ELSE <<>>)
       \o <<"cleanup">>

\* C15: whether a session was stopped by its timeout task or by a manual
\* stop, a finalize in which nothing raised is the same function of the
\* audio map and of what the collaborators returned: the pipeline ran once,
\* on the session's own entry, made the same calls in the same order, wrote
\* the same recordings and participants, updated or deleted the meeting the
\* same number of times, disconnected the voice client once and left the
\* guild deregistered (unless vc.disconnect() raised)
C15_TimeoutEquivalentToManualStop ==
  \A j \in Joins : \A by \in {"manual", "timeout"} :
    (/\ SoleTrigger(j, by)
     /\ cb[j].pc = "done" /\ ~cb[j].raised /\ ~Dropped(j))
    => LET a == cb[j].audio
           persisted == NonEmpty(a) # {}
       IN /\ hist[j].fin = 1 /\ cb[j].conn = j
          /\ cb[j].log = ExpectedCalls(a, InLog(j, "send_success"))
          /\ meeting[j].recs = (IF persisted THEN cb[j].files ELSE <<>>)
          /\ meeting[j].parts = (IF persisted THEN Ascending(NonEmpty(a)) ELSE <<>>)
          /\ meeting[j].upd = (IF persisted THEN 1 ELSE 0)
          /\ meeting[j].del = (IF a = <<>> THEN 1 ELSE 0)
          /\ discCalls[j] = 1 /\ vcConn[j] = "closed"
          /\ recording_tasks[GuildOf(j)] = None
          /\ \/ connections[GuildOf(j)] = None /\ deregs[j] = 1
             \/ DisconnectRaised(j) /\ connections[GuildOf(j)] = j

\* a session that only its timeout task stopped was finalized with
\* recordings persisted
C15_Witness ==
  \E j \in Joins :
    /\ SoleTrigger(j, "timeout")
    /\ cb[j].pc = "done" /\ ~cb[j].raised /\ ~Dropped(j)
    /\ InLog(j, "update_meeting") /\ InLog(j, "send_success")

\* the /join invocation j passed its two precondition checks and failed
JoinFailed(j) ==
  /\ jn[j].pc = "done"
  /\ jn[j].out \in {"ConnectionTimeout", "RecordingFailed", "Crashed"}

\* C16: when a /join that passed its precondition checks has failed and
\* everything has come to rest, the entry and the timeout task of that /join
\* are not registered for the guild
C16_StartErrorsRollBack ==
  \A j \in Joins :
    (Quiet /\ JoinFailed(j))
    => /\ connections[GuildOf(j)] # j
       /\ recording_tasks[GuildOf(j)] # j

\* C17: a manual stop request, from /stop or from the Stop Recording button,
\* that found no entry for its guild has ended as NotRecording
C17_NoSessionNotRecording ==
  \A k \in Stops :
    (st[k].pc = "done" /\ st[k].vc = None) => st[k].out = "NotRecording"

\* the /join invocation j was rejected by one of the two precondition checks
Rejected(j) == jn[j].out \in {"NotInVoiceChannel", "AlreadyRecording"}

\* C18: a /join that finds an entry for its guild is rejected; the step
\* that rejects a /join changes nothing but the handler itself (no entry, no
\* timeout task, no voice client, no recorder, no meeting record, no finish
\* callback is touched); and a rejected /join never has a voice client, a
\* meeting record or a timeout task of its own
C18_PreconditionErrorsMutateNothing ==
  /\ [](\A j \in Joins :
          Rejected(j) => /\ vcConn[j] = "none"
                         /\ meeting[j] = NoMeeting
                         /\ timer[j] = "none")
  /\ [][\A j \in Joins :
          (jn[j].pc = "idle" /\ jn'[j].pc # "idle")
          => /\ connections[jn'[j].g] # None => jn'[j].out \in {"NotInVoiceChannel", "AlreadyRecording"}
             /\ jn'[j].out \in {"NotInVoiceChannel", "AlreadyRecording"}
                => UNCHANGED <<connections, recording_tasks, selfVc, voiceClients, vcConn,
                               vcRec, timer, listener, cb, meeting, st,
                               discCalls, deregs, cancels, hist>>]_vars

\* a /join was rejected as AlreadyRecording while the guild's session is
\* registered and recording with its timeout task armed
C18_Witness ==
  \E j \in Joins :
    /\ jn[j].out = "AlreadyRecording"
    /\ connections[GuildOf(j)] # None
    /\ vcRec[connections[GuildOf(j)]] = "recording"
    /\ recording_tasks[GuildOf(j)] = connections[GuildOf(j)]
    /\ timer[connections[GuildOf(j)]] = "sleeping"

\* every session that was started has been finalized: its finish callback
\* ran the pipeline on the session's entry and has returned
AllFinalized ==
  /\ \E i \in Joins : jn[i].out = "Started"
  /\ \A i \in Joins : jn[i].out = "Started" => (cb[i].pc = "done" /\ cb[i].conn = i)

\* C19: a /join that is issued when every earlier session of the guild has
\* been finalized and nothing else is in flight is not rejected as
\* AlreadyRecording
C19_RestartAfterFinalize ==
  [][\A j \in Joins :
       (jn[j].pc = "idle" /\ jn'[j].pc # "idle" /\ Quiet /\ AllFinalized)
       => jn'[j].out # "AlreadyRecording"]_vars

\* the state of the session of join j: Active = registered and capturing,
\* Stopping = capture stopped and still registered, Finalized = removed from
\* connections; before it captures, a session is New (not registered yet)
\* or Starting (registered, recorder not started)
SessionState(j) ==
  IF connections[GuildOf(j)] = j
  THEN CASE vcRec[j] = "recording" -> "Active"
         [] vcRec[j] = "stopped" -> "Stopping"
         [] OTHER -> "Starting"
  ELSE IF deregs[j] > 0 THEN "Finalized" ELSE "New"

\* C20: a session only moves New -> Starting -> Active -> Stopping ->
\* Finalized (a start that fails goes from Starting to Finalized): it never
\* captures again after it was stopped, never goes from Active to Finalized
\* without a stop, and never comes back into connections after its removal
C20_MonotonicSessionState ==
  [][\A j \in Joins :
       \/ SessionState(j)' = SessionState(j)
       \/ <<SessionState(j), SessionState(j)'>> \in
            {<<"New", "Starting">>, <<"Starting", "Active">>, <<"Starting", "Finalized">>,
             <<"Active", "Stopping">>, <<"Stopping", "Finalized">>}]_vars

\* create_meeting returned None to the /join invocation c (db/meetings.py:
\* 19-45): the entry of c holds None as its meeting
MeetingMissing(c) ==
  /\ meeting[c].state = "none"
  /\ jn[c].pc \in {"play_sound", "error_send", "disconnecting", "done"}
  /\ jn[c].out \in {"none", "Started", "RecordingFailed", "Crashed"}
  /\ jn[c].err \in {"none", "start_recording"}

\* the finish callback of vc j raised on the missing meeting record: the
\* "Processing recordings" message was sent and the next statement,
\* `meeting.recordings = files`, raised (a send that raises is not logged)
MissingMeetingError(j) ==
  /\ cb[j].raised
  /\ InLog(j, "send_processing") /\ ~InLog(j, "update_meeting")

\* C21: a /join whose create_meeting returned None and that ended as Started
\* has started the recorder and armed the timeout task; and a finish
\* callback that runs on such a session with a buffer of non-zero size has
\* uploaded every such buffer and never raises on the missing meeting record
C21_MeetingFailureNonFatal ==
  /\ \A c \in Joins :
       (MeetingMissing(c) /\ jn[c].out = "Started")
       => (vcRec[c] # "idle" /\ timer[c] # "none")
  /\ \A j \in Joins :
       (/\ cb[j].conn # None /\ MeetingMissing(cb[j].conn)
        /\ NonEmpty(cb[j].audio) # {} /\ cb[j].pc # "create_recording")
       => /\ Calls(j, "create_recording") = Cardinality(NonEmpty(cb[j].audio))
          /\ ~MissingMeetingError(j)

\* a session that is registered and capturing, outside of /join, is the one
\* whose timeout task is kept in recording_tasks, and the task is sleeping
ArmedWhileCapturing ==
  \A j \in Joins :
    (connections[GuildOf(j)] = j /\ vcRec[j] = "recording" /\ jn[j].pc = "done")
    => (recording_tasks[GuildOf(j)] = j /\ timer[j] = "sleeping")

\* C22: with no manual stop and no dropped connection, a capturing session
\* always has its timeout task armed, and every session that was started is
\* eventually finalized: its finish callback has run the pipeline on it and
\* returned, and neither the session nor its task is registered any more
C22_TimerFinalizesEverySession ==
  /\ []ArmedWhileCapturing
  /\ \A j \in Joins :
       (jn[j].out = "Started")
       ~> (/\ cb[j].pc = "done" /\ hist[j].fin = 1
           /\ connections[GuildOf(j)] = None
           /\ recording_tasks[GuildOf(j)] = None)

\* the finish callback of vc j went through its error handler and the send
\* of the "Recording Error" embed itself raised (recording.py:283-284)
ErrorSendFailed(j) ==
  /\ cb[j].raised
  /\ cb[j].pc \in {"disconnecting2", "done"}
  /\ ~InLog(j, "send_error")

\* C23: a finish callback that has returned without the "Recording
\* Complete!" edit has published a message to the text channel (one of the
\* two "Recording Complete" notices for missing audio, or the "Recording
\* Error" embed), and one whose start_transcription failed has published the
\* error embed, unless the send of the error embed itself raised
C23_FailurePathsNotify ==
  \A j \in Joins :
    (cb[j].pc = "done" /\ ~ErrorSendFailed(j))
    => /\ ~InLog(j, "edit_complete")
          => \/ InLog(j, "send_no_audio") \/ InLog(j, "send_no_valid")
             \/ InLog(j, "send_error")
       /\ TranscriptionFailed(j) => InLog(j, "send_error")

\* C24: every edit of a status message that the status tick issues is for a
\* guild that is in `connections` at that moment and whose recorder was not
\* told to stop
C24_TickOnlyWhileActive ==
  status_update_task.edit.g # "none"
  => /\ status_update_task.edit.registered
     /\ status_update_task.edit.rec # "stopped"

\* C25: the status tick never stops running; when an iteration is over,
\* every guild of its snapshot had its edit attempted, whichever edits
\* failed; and no step of the tick changes `connections`, `recording_tasks`
\* or anything else of the sessions
C25_TickFailuresIsolated ==
  /\ [](/\ status_update_task.running
        /\ status_update_task.pc = "sleeping"
           => status_update_task.tried = status_update_task.snap)
  /\ [][status_update_task' # status_update_task => alt' = alt]_vars

\* an iteration over two guilds is over in which both edits failed: the
\* second edit was attempted after the first had failed
C25_Witness ==
  /\ status_update_task.pc = "sleeping"
  /\ status_update_task.n >= 1
  /\ Len(status_update_task.snap) = 2
  /\ status_update_task.errors = 2
  /\ status_update_task.tried = status_update_task.snap

\* what a guild owns: its entry in connections, its task in
\* recording_tasks, its voice client slot, and of each of its sessions the
\* voice connection, the recorder and the timeout task
TenantState(g) ==
  [entry |-> connections[g], task |-> recording_tasks[g], slot |-> voiceClients[g],
   sessions |-> {<<j, vcConn[j], vcRec[j], timer[j]>> :
                   j \in {i \in Joins : jn[i].pc # "idle" /\ jn[i].g = g}}]

\* the guilds a step is an operation on: the guild of the /join or stop
\* handler that moved, of the timeout task that woke up or finished, of the
\* finish callback or the listener that moved, of the voice connection that
\* the platform dropped, of the recorder whose socket was closed
ActedOn ==
  {jn'[j].g : j \in {i \in Joins : jn'[i] # jn[i]}}
  \cup {st'[k].g : k \in {i \in Stops : st'[i] # st[i]}}
  \cup {jn[j].g : j \in {i \in Joins :
          \/ cb[i].pc # "none" /\ cb'[i] # cb[i]
          \/ timer[i] \in {"sleeping", "sending"}
             /\ timer'[i] \in {"sending", "failed", "done"} /\ timer'[i] # timer[i]
          \/ listener[i].pc \in {"pending", "disconnecting"} /\ listener'[i] # listener[i]
          \/ vcConn[i] = "connected" /\ vcConn'[i] = "closed"
          \/ hist[i].by # "socket" /\ hist'[i].by = "socket"}}

\* C26: a step that is an operation on one guild leaves what every other
\* guild owns unchanged
C26_TenantIsolation ==
  [][\A g \in Guilds : TenantState(g)' # TenantState(g) => g \in ActedOn]_vars

\* the session of G2 was finalized and deregistered while the session of G1
\* is registered, connected and recording with its timeout task armed
C26_Witness ==
  /\ connections["G1"] = 1 /\ recording_tasks["G1"] = 1
  /\ vcConn[1] = "connected" /\ vcRec[1] = "recording" /\ timer[1] = "sleeping"
  /\ jn[2].g = "G2" /\ cb[2].pc = "done" /\ deregs[2] = 1 /\ discCalls[2] = 1
  /\ connections["G2"] = None

\* the position of the first call e in the log of the callback of vc j
\* (0: no such call)
FirstCall(j, e) ==
  IF InLog(j, e)
  THEN CHOOSE i \in 1..Len(cb[j].log) :
         cb[j].log[i] = e /\ \A h \in 1..(i - 1) : cb[j].log[h] # e
  ELSE 0

\* C27: a finish callback that has called start_transcription found a
\* buffer of non-zero size, had called update_meeting and _cleanup_recording
\* before, and the session it finalizes is out of `connections` with its
\* voice client no longer connected
C27_TranscriptionAfterRelease ==
  \A j \in Joins :
    InLog(j, "start_transcription")
    => /\ NonEmpty(cb[j].audio) # {}
       /\ 0 < FirstCall(j, "update_meeting")
       /\ FirstCall(j, "update_meeting") < FirstCall(j, "cleanup")
       /\ FirstCall(j, "cleanup") < FirstCall(j, "start_transcription")
       /\ connections[GuildOf(j)] # cb[j].conn
       /\ vcConn[cb[j].conn] # "connected"

\* C28: the finish callback of a session works on that session's own entry
\* and meeting record, and no step of it cancels the timeout task,
\* disconnects the voice client or deletes the entry of another session
C28_FinalizeOwnSessionOnly ==
  /\ [](\A j \in Joins : cb[j].conn \in {None, j})
  /\ [][\A j \in Joins :
          (cb[j].pc # "none" /\ cb'[j] # cb[j])
          => \A s \in Joins \ {j} : /\ cancels'[s] = cancels[s]
                                    /\ discCalls'[s] = discCalls[s]
                                    /\ deregs'[s] = deregs[s]]_vars

\* C29: no step of a /join handler, its error cleanup included, cancels the
\* timeout task, disconnects the voice client or deletes the entry of a
\* session that another /join has started
C29_FailedJoinSparesOtherSession ==
  [][\A j \in Joins :
       jn'[j] # jn[j]
       => \A s \in Joins \ {j} :
            jn[s].out = "Started" => /\ cancels'[s] = cancels[s]
                                     /\ discCalls'[s] = discCalls[s]
                                     /\ deregs'[s] = deregs[s]]_vars

\* C30: once a /join handler has returned, the voice connection it opened is
\* either no longer connected or is the voice client of the entry registered
\* for its guild in connections
C30_NoLeakedVoiceConnection ==
  \A j \in Joins :
    (jn[j].pc = "done" /\ vcConn[j] = "connected")
    => connections[GuildOf(j)] = j

\* C31: a session whose entry has been deleted from connections does not
\* leave behind a meeting record that was created and then neither updated
\* nor deleted
C31_NoDanglingMeetingRecord ==
  \A j \in Joins :
    deregs[j] > 0 => meeting[j].state # "created"

\* C32: every element of the recordings list written to a meeting record is
\* the file id of a successful create_recording call, never the None that a
\* failed call returns
C32_RecordingsAreBlobIds ==
  \A j \in Joins :
    \A i \in 1..Len(meeting[j].recs) : meeting[j].recs[i] # None

\* every registered timeout task belongs to the session that is registered
\* for its guild
TaskHasItsEntry ==
  \A g \in Guilds :
    recording_tasks[g] # None => connections[g] = recording_tasks[g]

\* every timeout task that is still sleeping is the one registered for its
\* guild
PendingTaskReferenced ==
  \A j \in Joins : timer[j] = "sleeping" => recording_tasks[GuildOf(j)] = j

\* C33: a registered timeout task always has the entry of the session that
\* armed it, a sleeping timeout task is always referenced by recording_tasks,
\* and a timeout task that stops a recorder stops the one of its own session
C33_TimerStopsOwnSessionOnly ==
  /\ []TaskHasItsEntry
  /\ []PendingTaskReferenced
  /\ [][\A j \in Joins :
          (timer[j] = "sleeping" /\ timer'[j] = "sending")
          => connections[GuildOf(j)] = j]_vars

\* the voice clients of the registered sessions, and of those that are
\* capturing
RegisteredVcs == {connections[g] : g \in {h \in Guilds : connections[h] # None}}
ActiveVcs == {v \in RegisteredVcs : vcRec[v] = "recording"}

\* C34: every iteration of the send_packet loop sends the keepalive packet on
\* the voice client of every session that is capturing, and on no voice
\* client other than those of the registered sessions
C34_KeepaliveReachesEverySession ==
  [][keepalive'.n # keepalive.n
     => /\ ActiveVcs \subseteq keepalive'.sent
        /\ keepalive'.sent \subseteq RegisteredVcs]_vars

\* C35: the step that unloads the Recording cog creates a cleanup task for
\* every guild that has an entry in connections and stops the send_packet
\* loop
C35_UnloadCleansEverySession ==
  [][(unload'.called /\ ~unload.called)
     => /\ unload'.scheduled = {g \in Guilds : connections[g] # None}
        /\ ~keepalive'.running]_vars

====
